---- MODULE Spec2Model ----
(***************************************************************************)
(* State-machine model of telegram-delete-logger: the ingestion handler    *)
(* (new_message_handler), the reconciliation handler                       *)
(* (edited_deleted_handler) and the retention loop                         *)
(* (delete_expired_messages), over the message table and the media         *)
(* directory.  Handlers are asyncio coroutines: a step of the model is the *)
(* code between two suspension points (await on store, network or sleep).  *)
(*                                                                         *)
(* Two variants of the program live in the repository: the single-file     *)
(* src/tg_delete_logger.py ("legacy") and the package                      *)
(* src/telegram_logger/__main__.py ("package").  cfg.variant selects which *)
(* one runs; where the two agree one definition models both.               *)
(***************************************************************************)
EXTENDS Integers, Sequences, FiniteSets, TLC

VARIABLES
    cfg,        \* configuration, fixed at start-up (config.* / settings.*)
    now,        \* datetime.now(timezone.utc), in whole days
    store,      \* rows of the messages table (DbMessage)
    vault,      \* files under media/: records [path, content, mtime]
    tasks,      \* the updates whose handlers are suspended at an await
    ended,      \* the updates whose handlers have ended, with their outcomes
    delivered,  \* the number of updates delivered so far
    reaper      \* state of delete_expired_messages

vars == <<cfg, now, store, vault, tasks, ended, delivered, reaper>>

---------------------------------------------------------------------------
(* Bounds of the model *)
MaxTime == 2
MaxIngestUpdates == 2
MaxReaperUpdates == 1
MaxUpdates == 3
MaxQueryUpdates == 1
MaxRows == 2
MaxCaptureUpdates == 2

(* ChatType enum values *)
USER == 1
CHANNEL == 2
GROUP == 3
BOT == 4
UNKNOWN == 0

(* None for a timestamp column (edited_at) *)
NoTime == -1

(* my_id: the account's own user id *)
MyId == 1

MAX_IN_MEMORY_FILE_SIZE == 5 * 1024 * 1024

(* config.LOG_CHAT_ID, added to IGNORED_IDS by init() *)
LogChat == {-1009}
ConfiguredIgnored == {8}
IGNORED_IDS == ConfiguredIgnored \cup LogChat

---------------------------------------------------------------------------
(* Pure helpers of the handlers *)

(* get_chat_type: group is tested before channel, channel before private *)
get_chat_type(m) ==
    IF m.is_group THEN GROUP
    ELSE IF m.is_channel THEN CHANNEL
    ELSE IF m.is_private THEN (IF m.sender_bot THEN BOT ELSE USER)
    ELSE UNKNOWN

(* get_sender_id *)
get_sender_id(m) ==
    IF m.peer = "user" THEN (IF m.out THEN MyId ELSE m.peer_val)
    ELSE IF m.peer \in {"channel", "chat"}
         THEN (IF m.from_kind \in {"user", "channel"} THEN m.from_val ELSE 0)
    ELSE 0

IsIgnored_senderOnly(from_id, chat_id) ==
    from_id \in IGNORED_IDS

(* the ignore test of new_message_handler *)
IsIgnored(from_id, chat_id) ==
    from_id \in IGNORED_IDS \/ chat_id \in IGNORED_IDS

(* noforwards: event.chat.noforwards is True, and when the chat object has  *)
(* no such attribute (a User), event.message.noforwards is True            *)
DetectNoforwards(m) ==
    IF m.chat_nf = "absent" THEN m.msg_nf ELSE m.chat_nf = "yes"

(* self_destructing: event.message.media.ttl_seconds is truthy *)
DetectSelfDestructing(m) ==
    m.media # "none" /\ m.ttl > 0

ShouldCapture_flagsIgnored(m) ==
    m.media # "none"

(* the condition guarding save_media_as_file in new_message_handler *)
ShouldCapture(m) ==
    m.media # "none" /\ (DetectNoforwards(m) \/ DetectSelfDestructing(m))

(* save_media_as_file: msg.file and msg.file.size > MAX raises *)
TooLarge_never(m) ==
    FALSE

TooLarge(m) ==
    m.media # "none" /\ m.size > 0 /\ m.size > MAX_IN_MEMORY_FILE_SIZE

(* str(n) for an integer, as a sequence of characters *)
RECURSIVE NatStr(_)
NatStr(n) ==
    LET d == <<"0", "1", "2", "3", "4", "5", "6", "7", "8", "9">>
    IN  IF n < 10 THEN <<d[n + 1]>> ELSE NatStr(n \div 10) \o <<d[(n % 10) + 1]>>

IntStr(n) == IF n < 0 THEN <<"-">> \o NatStr(-n) ELSE NatStr(n)

FilePath_noSeparator(msg_id, chat_id) ==
    <<"media/">> \o IntStr(msg_id) \o IntStr(chat_id)

(* file_path = f"media/{msg_id}_{chat_id}" *)
FilePath(msg_id, chat_id) ==
    <<"media/">> \o IntStr(msg_id) \o <<"_">> \o IntStr(chat_id)

---------------------------------------------------------------------------
(* The messages table *)

Key(r) == <<r.chat_id, r.id>>

(* select(DbMessage.id).where(DbMessage.id == msg_id) ... .scalar() *)
MessageExists(rows, msg_id) ==
    \E r \in rows : r.id = msg_id

(* The row new_message_handler builds *)
NewRow(m, isEdit, t) ==
    [id |-> m.id,
     from_id |-> get_sender_id(m),
     chat_id |-> m.chat_id,
     type |-> get_chat_type(m),
     msg_text |-> m.text,
     media |-> m.media,
     noforwards |-> DetectNoforwards(m),
     self_destructing |-> DetectSelfDestructing(m),
     created_at |-> t,
     edited_at |-> IF isEdit THEN t ELSE NoTime]

(* session.add + commit under the table's uniqueness constraint on        *)
(* (chat_id, id): the insert is refused when the key is present            *)
InsertRefused(rows, r) ==
    \E q \in rows : Key(q) = Key(r)

---------------------------------------------------------------------------
(* The media directory *)

FileAt(files, p) == {f \in files : f.path = p}

(* file_encrypt.encrypted(path) stores what is written through it in its  *)
(* encrypted form; file_encrypt.decrypted(path) gives the bytes back       *)
Encrypted(b) == <<"encrypted", b>>

Decrypted(c) == c[2]

(* the bytes client.download_media(media, f) writes for a media object *)
Download(media) == <<"bytes", media>>

(* file_encrypt.encrypted(file_path) + download_media: the file at the path *)
(* is replaced by the downloaded media, modified now                       *)
WriteFile(files, p, c, t) ==
    {f \in files : f.path # p} \cup {[path |-> p, content |-> c, mtime |-> t]}

---------------------------------------------------------------------------
(* The reconciliation query of load_messages_from_event *)

(* DbMessage.chat_id.notlike("-100%") is false for these chat ids *)
LikeMinus100(chat_id) ==
    LET s == IntStr(chat_id)
    IN  Len(s) >= 4 /\ SubSeq(s, 1, 4) = <<"-", "1", "0", "0">>

(* ids = event.deleted_ids[:RATE_LIMIT] / event.messages[:RATE_LIMIT] /    *)
(* [event.message.id]                                                      *)
CandidateIds(t) ==
    IF t.upd = "edited" THEN <<t.msg.id>>
    ELSE SubSeq(t.ids, 1, IF Len(t.ids) < cfg.rate_limit THEN Len(t.ids) ELSE cfg.rate_limit)

SeqRange(s) == {s[k] : k \in 1..Len(s)}

(* the where clause: the event's chat when it carries one, otherwise every *)
(* chat outside the "-100" namespace                                       *)
InScope(t, r) ==
    /\ IF t.chat # 0 THEN r.chat_id = t.chat ELSE ~LikeMinus100(r.chat_id)
    /\ r.id \in SeqRange(CandidateIds(t))

(* ORDER BY edited_at DESC, created_at ASC (NULL edited_at sorts last) *)
QueryBefore(a, b) ==
    \/ a.edited_at > b.edited_at
    \/ a.edited_at = b.edited_at /\ a.created_at <= b.created_at

(* the columns of the select list: neither type nor edited_at is selected *)
Selected(r) ==
    [id |-> r.id, from_id |-> r.from_id, chat_id |-> r.chat_id,
     msg_text |-> r.msg_text, media |-> r.media, noforwards |-> r.noforwards,
     self_destructing |-> r.self_destructing, created_at |-> r.created_at]

(* the results the database may return for the rows S matched by the where *)
(* clause.  On SQLite .distinct(chat_id, id) is SELECT DISTINCT over the   *)
(* select list, and each returned row is ordered by the edited_at and      *)
(* created_at of one of the stored rows it stands for.                     *)
QueryOrders(S) ==
    LET P == {Selected(r) : r \in S}
        n == Cardinality(P)
    IN  {q \in [1..n -> P] :
           /\ \A p \in P : \E k \in 1..n : q[k] = p
           /\ \E rep \in [P -> S] :
                /\ \A p \in P : Selected(rep[p]) = p
                /\ \A j, k \in 1..n : j < k => QueryBefore(rep[q[j]], rep[q[k]])}

KeepAfterLoad_always(t, r) == TRUE

(* the post-filter: a read event keeps self-destructing rows only *)
KeepAfterLoad(t, r) ==
    ~(t.upd = "read" /\ ~r.self_destructing)

RECURSIVE FilterSeq(_, _)
FilterSeq(t, q) ==
    IF Len(q) = 0 THEN <<>>
    ELSE (IF KeepAfterLoad(t, Head(q)) THEN <<Head(q)>> ELSE <<>>) \o FilterSeq(t, Tail(q))

---------------------------------------------------------------------------
(* retrieve_media_as_file *)

(* the vault file is opened when the flag is set and the media is neither  *)
(* a geo point nor a poll                                                  *)
OpensVault(r) ==
    (r.noforwards \/ r.self_destructing) /\ r.media # "geo" /\ r.media # "poll"

(* file_encrypt.decrypted(file_path) on a path that holds no file raises *)
DecryptRaises(files, p) ==
    FileAt(files, p) = {}

(* the media that have a document: plain documents, stickers, gifs and    *)
(* round videos differ in the attributes of the document                  *)
DocumentKinds == {"document", "sticker", "gif", "round_video"}

(* get_file_name, called first by retrieve_media_as_file: the package     *)
(* reads media.document.attributes of every media that is neither a photo *)
(* nor a contact, and only a document media has a document                *)
GetFileNameRaises(media) ==
    cfg.variant = "package" /\ media \notin {"none", "photo", "contact"} \cup DocumentKinds

(* what retrieve_media_as_file does for a loaded row: it opens the vault   *)
(* file, yields the media reference, or raises before either               *)
RetrieveOutcome(r) ==
    IF GetFileNameRaises(r.media) THEN "raised"
    ELSE IF OpensVault(r) THEN "vault"
    ELSE "media"

(* the media_file retrieve_media_as_file yields: the decrypted content of  *)
(* the vault file at the row's path, or the media object itself            *)
MediaFile(files, r) ==
    IF OpensVault(r)
    THEN {Decrypted(f.content) : f \in FileAt(files, FilePath(r.id, r.chat_id))}
    ELSE {<<"media", r.media>>}

(* the media sent as a message of their own, the text following as a reply *)
FileFirstKinds == {"sticker", "round_video", "dice", "game", "contact", "geo", "poll"}

(* how the record of a row is sent once media_file is at hand; the package *)
(* writes the text to the process log and sends nothing                    *)
Dispatch(media) ==
    IF cfg.variant = "package" THEN "logged"
    ELSE IF media \in FileFirstKinds THEN "file_then_reply"
    ELSE IF media = "webpage" THEN "text"
    ELSE "text_with_file"

(* retrieve raises for this loaded row *)
RetrieveRaises(files, r) ==
    \/ GetFileNameRaises(r.media)
    \/ OpensVault(r) /\ DecryptRaises(files, FilePath(r.id, r.chat_id))

---------------------------------------------------------------------------
(* delete_expired_messages *)

(* the cut-off of each chat type; UNKNOWN rows use the group horizon *)
PersistDays(type) ==
    IF type = USER THEN cfg.persist.user
    ELSE IF type = CHANNEL THEN cfg.persist.channel
    ELSE IF type = GROUP THEN cfg.persist.group
    ELSE IF type = BOT THEN cfg.persist.bot
    ELSE cfg.persist.group

ExpiredRow_typedOnly(r, t) ==
    r.type \in {USER, CHANNEL, GROUP, BOT} /\ r.created_at < t - PersistDays(r.type)

ExpiredRow_inclusive(r, t) ==
    r.created_at <= t - PersistDays(r.type)

(* the where clause of the delete statement, for the sweep computed at t *)
ExpiredRow(r, t) ==
    r.created_at < t - PersistDays(r.type)

(* file_persist_days = max(GROUP, CHANNEL) *)
FilePersistDays ==
    IF cfg.persist.group > cfg.persist.channel THEN cfg.persist.group
    ELSE cfg.persist.channel

(* the directory os.walk scans *)
WalkDir ==
    IF cfg.variant = "legacy" THEN "media/" ELSE "../media/"

(* modified_time < expiry_time, for a file the walk finds *)
ExpiredFile(f, t) ==
    f.path[1] = WalkDir /\ f.mtime < t - FilePersistDays

---------------------------------------------------------------------------
(* Updates and their handlers *)

NoMsg ==
    [id |-> 0, chat_id |-> 0, peer |-> "none", peer_val |-> 0, out |-> FALSE,
     from_kind |-> "none", from_val |-> 0, is_group |-> FALSE, is_channel |-> FALSE,
     is_private |-> FALSE, sender_bot |-> FALSE, chat_nf |-> "absent", msg_nf |-> FALSE,
     media |-> "none", ttl |-> 0, size |-> 0, text |-> "", link |-> {}]

(* A delivered update.  pc is the suspension point its current handler     *)
(* waits at; nmh and edh are the outcomes of new_message_handler and       *)
(* edited_deleted_handler for it.  table is the content of the messages    *)
(* table when the handler's query ran (queried), loaded the rows           *)
(* load_messages_from_event returned; retrieved lists, for each loaded row *)
(* that reached retrieve_media_as_file, what it did; saved holds the paths *)
(* written by save_restricted_msg; files lists, for each record that was   *)
(* sent, the media_file retrieve_media_as_file yielded, and dispatch the   *)
(* calls that sent it.                                                     *)
NewTask(upd, m, ids, chat) ==
    [upd |-> upd, msg |-> m, ids |-> ids, chat |-> chat,
     pc |-> "done", nmh |-> "none", edh |-> "none",
     seen |-> {r \in store : Key(r) = <<m.chat_id, m.id>>},
     wrote |-> FALSE, row |-> {}, loaded |-> <<>>, i |-> 0,
     mentions |-> 0, notices |-> 0, rollups |-> 0,
     queried |-> FALSE, table |-> {}, retrieved |-> <<>>, saved |-> {},
     files |-> <<>>, dispatch |-> <<>>]

Running == reaper.pc # "terminated"

(* the end of edited_deleted_handler, after the loop: the rollup notice.   *)
(* The package reads config.RATE_LIMIT_NUM_MESSAGES, and config is no name *)
(* of that module.                                                         *)
FinishEdh(t) ==
    IF cfg.variant = "package"
    THEN [t EXCEPT !.pc = "done", !.edh = "raised"]
    ELSE [t EXCEPT !.pc = "done", !.edh = "returned",
                   !.rollups = IF Len(t.ids) > cfg.rate_limit /\ t.mentions > 0
                               THEN t.rollups + 1 ELSE t.rollups]

(* edited_deleted_handler up to its first await, the query *)
StartEdh(t) ==
    IF t.upd = "edited" /\ ~cfg.save_edited
    THEN [t EXCEPT !.pc = "done", !.edh = "returned"]
    ELSE [t EXCEPT !.pc = "load", !.edh = "running"]

(* new_message_handler has ended for the update: the dispatcher calls the  *)
(* next handler registered for it                                          *)
EndNmh(t, outcome) ==
    LET u == [t EXCEPT !.nmh = outcome, !.pc = "done"]
    IN  IF t.upd = "edited" THEN StartEdh(u) ELSE u

(* the test that precedes the ignore test: a message of the account itself *)
(* in the log chat whose text starts with a message link; m.link holds the *)
(* messages its links resolve to                                           *)
IsLinkCommand(m) ==
    m.chat_id \in LogChat /\ get_sender_id(m) = MyId /\ m.text # "" /\ m.link # {}

(* the linked messages save_restricted_msg writes to the vault: those with *)
(* media, whatever their flags; an oversized one raises inside its try     *)
Restricted(m) == {g \in m.link : g.media # "none" /\ ~TooLarge(g)}

(* new_message_handler from its entry to its first await *)
StartNmh(t) ==
    LET m == t.msg
    IN  IF IsLinkCommand(m) THEN [t EXCEPT !.nmh = "running", !.pc = "fetch"]
        ELSE IF IsIgnored(get_sender_id(m), m.chat_id) THEN EndNmh(t, "returned")
        ELSE IF ShouldCapture(m)
             THEN (IF TooLarge(m) THEN EndNmh(t, "raised")
                   ELSE [t EXCEPT !.nmh = "running", !.pc = "download"])
        ELSE [t EXCEPT !.nmh = "running", !.pc = "exists"]

(* the dispatcher's bookkeeping: updates whose handlers have all ended     *)
(* leave the set of suspended ones                                         *)
Settle(new) ==
    /\ tasks' = SelectSeq(new, LAMBDA t : t.pc # "done")
    /\ ended' = ended \cup {new[k] : k \in {j \in 1..Len(new) : new[j].pc = "done"}}

Arrive(t) ==
    /\ Settle(Append(tasks, t))
    /\ delivered' = delivered + 1

(* A NewMessage or MessageEdited update arrives *)
Observe(m, isEdit) ==
    /\ Running
    /\ Arrive(StartNmh(NewTask(IF isEdit THEN "edited" ELSE "new", m, <<m.id>>, m.chat_id)))
    /\ UNCHANGED <<cfg, now, store, vault, reaper>>

(* save_media_as_file completes: the media is in the vault *)
DownloadDone(k) ==
    /\ Running
    /\ tasks[k].pc = "download"
    /\ vault' = WriteFile(vault, FilePath(tasks[k].msg.id, tasks[k].msg.chat_id),
                          Encrypted(Download(tasks[k].msg.media)), now)
    /\ tasks' = [tasks EXCEPT ![k] = [tasks[k] EXCEPT !.wrote = TRUE, !.pc = "exists"]]
    /\ UNCHANGED <<cfg, now, store, ended, delivered, reaper>>

(* save_restricted_msg for the links of a link command: the media of each  *)
(* linked message is written to the vault, then new_message_handler        *)
(* returns                                                                 *)
RestrictedDone(k) ==
    /\ Running
    /\ tasks[k].pc = "fetch"
    /\ LET t == tasks[k]
           paths == {FilePath(g.id, g.chat_id) : g \in Restricted(t.msg)}
       IN  /\ vault' = {f \in vault : f.path \notin paths} \cup
                       {[path |-> FilePath(g.id, g.chat_id),
                         content |-> Encrypted(Download(g.media)),
                         mtime |-> now] : g \in Restricted(t.msg)}
           /\ Settle([tasks EXCEPT ![k] = EndNmh([t EXCEPT !.saved = paths], "returned")])
    /\ UNCHANGED <<cfg, now, store, delivered, reaper>>

(* the existence query returns; a missing id leads to the insert *)
ExistsDone(k) ==
    /\ Running
    /\ tasks[k].pc = "exists"
    /\ LET t == tasks[k]
       IN  Settle([tasks EXCEPT ![k] =
             IF MessageExists(store, t.msg.id) THEN EndNmh(t, "returned")
             ELSE [t EXCEPT !.pc = "commit",
                            !.row = {NewRow(t.msg, t.upd = "edited", now)}]])
    /\ UNCHANGED <<cfg, now, store, vault, delivered, reaper>>

CommitDone_upsert(k) ==
    /\ Running
    /\ tasks[k].pc = "commit"
    /\ \E r \in tasks[k].row :
         /\ Settle([tasks EXCEPT ![k] = EndNmh(tasks[k], "returned")])
         /\ store' = {q \in store : Key(q) # Key(r)} \cup {r}
    /\ UNCHANGED <<cfg, now, vault, delivered, reaper>>

(* session.commit() of the insert *)
CommitDone(k) ==
    /\ Running
    /\ tasks[k].pc = "commit"
    /\ \E r \in tasks[k].row :
         IF InsertRefused(store, r)
         THEN /\ Settle([tasks EXCEPT ![k] = EndNmh(tasks[k], "raised")])
              /\ UNCHANGED store
         ELSE /\ Settle([tasks EXCEPT ![k] = EndNmh(tasks[k], "returned")])
              /\ store' = store \cup {r}
    /\ UNCHANGED <<cfg, now, vault, delivered, reaper>>

(* A MessageDeleted update arrives; chat is 0 when the event has no chat_id *)
Deleted(ids, chat) ==
    /\ Running
    /\ Arrive(StartEdh(NewTask("deleted", NoMsg, ids, chat)))
    /\ UNCHANGED <<cfg, now, store, vault, reaper>>

(* An UpdateReadMessagesContents update arrives (it has no chat_id) *)
Read(ids) ==
    /\ Running
    /\ Arrive(StartEdh(NewTask("read", NoMsg, ids, 0)))
    /\ UNCHANGED <<cfg, now, store, vault, reaper>>

(* load_messages_from_event returns; with no row the loop is skipped *)
LoadDone(k) ==
    /\ Running
    /\ tasks[k].pc = "load"
    /\ \E q \in QueryOrders({r \in store : InScope(tasks[k], r)}) :
         LET msgs == FilterSeq(tasks[k], q)
             t == [tasks[k] EXCEPT !.loaded = msgs, !.i = 1, !.pc = "record",
                                   !.queried = TRUE, !.table = store]
         IN  Settle([tasks EXCEPT ![k] = IF Len(msgs) = 0 THEN FinishEdh(t) ELSE t])
    /\ UNCHANGED <<cfg, now, store, vault, delivered, reaper>>

RecordDone_consumes(k) ==
    /\ Running
    /\ tasks[k].pc = "record"
    /\ LET t == tasks[k]
           r == t.loaded[t.i]
           got == [t EXCEPT !.mentions = @ + 1,
                            !.retrieved = Append(@, RetrieveOutcome(r))]
           sent == [got EXCEPT !.notices = @ + 1, !.i = @ + 1,
                               !.files = Append(@, MediaFile(vault, r)),
                               !.dispatch = Append(@, Dispatch(r.media))]
       IN  /\ Settle([tasks EXCEPT ![k] =
                 IF IsIgnored(r.from_id, r.chat_id)
                 THEN [t EXCEPT !.pc = "done", !.edh = "returned"]
                 ELSE IF RetrieveRaises(vault, r)
                 THEN [got EXCEPT !.pc = "done", !.edh = "raised"]
                 ELSE IF t.i = Len(t.loaded) THEN FinishEdh(sent)
                 ELSE sent])
           /\ vault' = IF OpensVault(r)
                       THEN {f \in vault : f.path # FilePath(r.id, r.chat_id)}
                       ELSE vault
    /\ UNCHANGED <<cfg, now, store, delivered, reaper>>

(* one iteration of the loop over the loaded rows: ignore test, mentions,  *)
(* retrieve, send; after the last row the rollup                           *)
RecordDone(k) ==
    /\ Running
    /\ tasks[k].pc = "record"
    /\ LET t == tasks[k]
           r == t.loaded[t.i]
           got == [t EXCEPT !.mentions = @ + 1,
                            !.retrieved = Append(@, RetrieveOutcome(r))]
           sent == [got EXCEPT !.notices = @ + 1, !.i = @ + 1,
                               !.files = Append(@, MediaFile(vault, r)),
                               !.dispatch = Append(@, Dispatch(r.media))]
       IN  Settle([tasks EXCEPT ![k] =
             IF IsIgnored(r.from_id, r.chat_id)
             THEN [t EXCEPT !.pc = "done", !.edh = "returned"]
             ELSE IF RetrieveRaises(vault, r)
             THEN [got EXCEPT !.pc = "done", !.edh = "raised"]
             ELSE IF t.i = Len(t.loaded) THEN FinishEdh(sent)
             ELSE sent])
    /\ UNCHANGED <<cfg, now, store, vault, delivered, reaper>>

(* the delete statement of the sweep computed at reaper.at is committed *)
ReaperPurge ==
    /\ reaper.pc = "purge"
    /\ store' = {r \in store : ~ExpiredRow(r, reaper.at)}
    /\ reaper' = [reaper EXCEPT !.pc = "files",
                     !.rowcount = Cardinality({r \in store : ExpiredRow(r, reaper.at)})]
    /\ UNCHANGED <<cfg, now, vault, tasks, ended, delivered>>

(* the walk over the media directory, then asyncio.sleep(300) *)
ReaperFiles ==
    /\ reaper.pc = "files"
    /\ vault' = {f \in vault : ~ExpiredFile(f, reaper.at)}
    /\ reaper' = [reaper EXCEPT !.pc = "sleep"]
    /\ UNCHANGED <<cfg, now, store, tasks, ended, delivered>>

(* the sleep ends: the next iteration reads the clock *)
ReaperWake ==
    /\ reaper.pc = "sleep"
    /\ reaper' = [reaper EXCEPT !.pc = "purge", !.at = now]
    /\ UNCHANGED <<cfg, now, store, vault, tasks, ended, delivered>>

(* a store or filesystem operation of the sweep raises: nothing in the     *)
(* loop catches it, init() ends with it and so does the process            *)
ReaperRaises ==
    /\ reaper.pc \in {"purge", "files"}
    /\ reaper' = [reaper EXCEPT !.pc = "terminated"]
    /\ UNCHANGED <<cfg, now, store, vault, tasks, ended, delivered>>

(* the clock advances a day *)
Tick ==
    /\ Running
    /\ now < MaxTime
    /\ now' = now + 1
    /\ UNCHANGED <<cfg, store, vault, tasks, ended, delivered, reaper>>

---------------------------------------------------------------------------
(* The environment: the chats and messages the platform delivers *)

(* a private chat with user uid: the chat object is a User, which has no   *)
(* noforwards attribute                                                    *)
PrivateMsg(id, uid) ==
    [NoMsg EXCEPT !.id = id, !.chat_id = uid, !.peer = "user", !.peer_val = uid,
                  !.is_private = TRUE]

(* a basic group: peer is a PeerChat, the author a user *)
GroupMsg(id, chat, author) ==
    [NoMsg EXCEPT !.id = id, !.chat_id = chat, !.peer = "chat", !.from_kind = "user",
                  !.from_val = author, !.is_group = TRUE, !.chat_nf = "no"]

(* a broadcast channel with forwarding disabled; posts carry no author *)
ChannelMsg(id, chat) ==
    [NoMsg EXCEPT !.id = id, !.chat_id = chat, !.peer = "channel",
                  !.is_channel = TRUE, !.chat_nf = "yes"]

WithMedia(m, kind, ttl, size) ==
    [m EXCEPT !.media = kind, !.ttl = ttl, !.size = size]

Big == MAX_IN_MEMORY_FILE_SIZE + 1

(* what the ingestion handler is observed on: one message id in a private  *)
(* chat and in a channel, every combination of media, flags and size that  *)
(* the capture decision reads, and a message of an ignored sender          *)
IngestMessages ==
    {[PrivateMsg(1, 5) EXCEPT !.text = "a"],
     WithMedia(PrivateMsg(1, 5), "photo", 0, 1),
     WithMedia([PrivateMsg(1, 5) EXCEPT !.msg_nf = TRUE], "photo", 0, 1),
     WithMedia(PrivateMsg(1, 5), "photo", 5, 1),
     WithMedia([PrivateMsg(1, 5) EXCEPT !.msg_nf = TRUE], "photo", 0, MAX_IN_MEMORY_FILE_SIZE),
     WithMedia([PrivateMsg(1, 5) EXCEPT !.msg_nf = TRUE], "photo", 0, Big),
     [PrivateMsg(1, 5) EXCEPT !.text = "a", !.msg_nf = TRUE],
     [ChannelMsg(1, -1003) EXCEPT !.text = "b"],
     WithMedia([GroupMsg(1, -20, 8) EXCEPT !.chat_nf = "yes"], "photo", 0, 1)}

DefaultPersist == [user |-> 1, channel |-> 1, group |-> 1, bot |-> 1]

IngestConfigs ==
    [variant : {"legacy", "package"}, rate_limit : {1}, save_edited : BOOLEAN,
     persist : {DefaultPersist}]

---------------------------------------------------------------------------
InitWith(configs) ==
    /\ cfg \in configs
    /\ now = 0
    /\ store = {}
    /\ vault = {}
    /\ tasks = <<>>
    /\ ended = {}
    /\ delivered = 0
    /\ reaper = [pc |-> "purge", at |-> 0, rowcount |-> 0]

(* Ingestion: NewMessage and MessageEdited updates, their handlers         *)
(* interleaving at the suspension points                                   *)
InitIngest == InitWith(IngestConfigs)

NextIngest ==
    \/ \E m \in IngestMessages, e \in BOOLEAN :
          delivered < MaxIngestUpdates /\ Observe(m, e)
    \/ \E k \in 1..Len(tasks) : DownloadDone(k)
    \/ \E k \in 1..Len(tasks) : ExistsDone(k)
    \/ \E k \in 1..Len(tasks) : CommitDone(k)
    \/ \E k \in 1..Len(tasks) : LoadDone(k)
    \/ \E k \in 1..Len(tasks) : RecordDone(k)

SpecIngest == InitIngest /\ [][NextIngest]_vars

(* The ignore set: messages of an ignored sender and of the log chat that  *)
(* would qualify for capture, link commands in the log chat of the account *)
(* and of another user, and a message that is not ignored.                 *)
IgnoredGroupMsg ==
    WithMedia([GroupMsg(1, -20, 8) EXCEPT !.chat_nf = "yes"], "photo", 0, 1)

IgnoreMessages ==
    {IgnoredGroupMsg,
     WithMedia(ChannelMsg(1, -1009), "photo", 0, 1),
     [GroupMsg(2, -1009, MyId) EXCEPT !.text = "l", !.link = {IgnoredGroupMsg}],
     [GroupMsg(3, -1009, 7) EXCEPT !.text = "l", !.link = {IgnoredGroupMsg}],
     WithMedia([PrivateMsg(1, 5) EXCEPT !.msg_nf = TRUE], "photo", 0, 1)}

InitIgnore == InitWith(IngestConfigs)

NextIgnore ==
    \/ \E m \in IgnoreMessages, e \in BOOLEAN :
          delivered < MaxIngestUpdates /\ Observe(m, e)
    \/ \E k \in 1..Len(tasks) : RestrictedDone(k)
    \/ \E k \in 1..Len(tasks) : DownloadDone(k)
    \/ \E k \in 1..Len(tasks) : ExistsDone(k)
    \/ \E k \in 1..Len(tasks) : CommitDone(k)
    \/ \E k \in 1..Len(tasks) : LoadDone(k)
    \/ \E k \in 1..Len(tasks) : RecordDone(k)

SpecIgnore == InitIgnore /\ [][NextIgnore]_vars

(* Reconciliation: rows are stored by the ingestion handler, and deletion, *)
(* read and edit events are reconciled against them.  The messages: plain  *)
(* text, text of a protected sender (no vault file), a protected and an    *)
(* expiring photo, the same id in a second chat, and a channel post.       *)
ReconcileMessages ==
    {[PrivateMsg(1, 5) EXCEPT !.text = "a"],
     [PrivateMsg(2, 5) EXCEPT !.text = "b", !.msg_nf = TRUE],
     WithMedia(PrivateMsg(2, 5), "photo", 5, 1),
     [GroupMsg(1, -20, 7) EXCEPT !.text = "c"]}

(* the message whose edit is observed *)
EditedMessages ==
    {[PrivateMsg(1, 5) EXCEPT !.text = "d"]}

(* the id lists of deletion and read events *)
IdLists == {<<1>>, <<1, 2>>, <<2, 1>>, <<3, 1, 2>>}

(* the chat_id of a deletion event: 0 when it has none *)
DeleteChats == {0, -1003}

RateLimits == {1, 2}

ReconcileConfigs ==
    [variant : {"legacy", "package"}, rate_limit : RateLimits, save_edited : {TRUE},
     persist : {DefaultPersist}]

InitReconcile == InitWith(ReconcileConfigs)

NextReconcile ==
    \/ \E m \in ReconcileMessages : delivered < MaxUpdates /\ Observe(m, FALSE)
    \/ \E m \in EditedMessages : delivered < MaxUpdates /\ Observe(m, TRUE)
    \/ \E k \in 1..Len(tasks) : DownloadDone(k)
    \/ \E k \in 1..Len(tasks) : ExistsDone(k)
    \/ \E k \in 1..Len(tasks) : CommitDone(k)
    \/ \E ids \in IdLists, c \in DeleteChats :
          delivered < MaxUpdates /\ Deleted(ids, c)
    \/ \E ids \in IdLists : delivered < MaxUpdates /\ Read(ids)
    \/ \E k \in 1..Len(tasks) : LoadDone(k)
    \/ \E k \in 1..Len(tasks) : RecordDone(k)

SpecReconcile == InitReconcile /\ [][NextReconcile]_vars

(* The reconciliation query over the contents the messages table may have  *)
(* when an event arrives.  The table outlives the process and its          *)
(* configuration, so it may hold rows of a sender who is ignored now, and  *)
(* the rows are drawn without assuming a uniqueness constraint.            *)
RowPool ==
    {NewRow([PrivateMsg(1, 5) EXCEPT !.text = "a"], FALSE, 0),
     [NewRow([PrivateMsg(1, 5) EXCEPT !.text = "a"], FALSE, 0) EXCEPT !.edited_at = 1],
     NewRow([PrivateMsg(1, 5) EXCEPT !.text = "d"], TRUE, 1),
     NewRow(WithMedia(PrivateMsg(2, 5), "photo", 5, 1), TRUE, 1),
     NewRow([GroupMsg(3, -100, 7) EXCEPT !.text = "c"], FALSE, 0),
     NewRow([ChannelMsg(1, -1003) EXCEPT !.text = "b"], FALSE, 0),
     NewRow([GroupMsg(2, -20, 8) EXCEPT !.text = "e"], FALSE, 1),
     NewRow(WithMedia([PrivateMsg(3, 5) EXCEPT !.msg_nf = TRUE], "geo", 0, 0), FALSE, 0),
     NewRow(WithMedia(PrivateMsg(3, 6), "poll", 0, 0), FALSE, 0)}

(* the vault files of the rows whose media was captured *)
CapturedFiles(rows) ==
    {[path |-> FilePath(r.id, r.chat_id), content |-> Encrypted(Download(r.media)),
      mtime |-> r.created_at] :
        r \in {x \in rows : x.media # "none" /\ (x.noforwards \/ x.self_destructing)}}

QueryChats == {0, 5, -1003}

QueryConfigs ==
    [variant : {"legacy", "package"}, rate_limit : {2}, save_edited : {TRUE},
     persist : {DefaultPersist}]

InitQuery ==
    /\ cfg \in QueryConfigs
    /\ now = 1
    /\ store \in {S \in SUBSET RowPool : Cardinality(S) <= MaxRows}
    /\ vault = CapturedFiles(store)
    /\ tasks = <<>>
    /\ ended = {}
    /\ delivered = 0
    /\ reaper = [pc |-> "purge", at |-> 0, rowcount |-> 0]

NextQuery ==
    \/ \E ids \in IdLists, c \in QueryChats :
          delivered < MaxQueryUpdates /\ Deleted(ids, c)
    \/ \E ids \in IdLists : delivered < MaxQueryUpdates /\ Read(ids)
    \/ \E m \in EditedMessages : delivered < MaxQueryUpdates /\ Observe(m, TRUE)
    \/ \E k \in 1..Len(tasks) : ExistsDone(k)
    \/ \E k \in 1..Len(tasks) : CommitDone(k)
    \/ \E k \in 1..Len(tasks) : LoadDone(k)
    \/ \E k \in 1..Len(tasks) : RecordDone(k)

SpecQuery == InitQuery /\ [][NextQuery]_vars

(* Retention: one message of each chat type, two of them with captured     *)
(* media, observed while the clock advances and the retention loop runs    *)
(* under every setting of the four horizons.                               *)
ReaperMessages ==
    {[PrivateMsg(1, 5) EXCEPT !.text = "a"],
     [PrivateMsg(2, 6) EXCEPT !.text = "b", !.sender_bot = TRUE],
     WithMedia([GroupMsg(3, -20, 7) EXCEPT !.chat_nf = "yes"], "photo", 0, 1),
     WithMedia(ChannelMsg(4, -1003), "photo", 0, 1),
     [NoMsg EXCEPT !.id = 5, !.chat_id = 9, !.text = "e"]}

HorizonDays == {1, 2}

ReaperConfigs ==
    [variant : {"legacy"}, rate_limit : {1}, save_edited : {TRUE},
     persist : [user : HorizonDays, channel : HorizonDays,
                group : HorizonDays, bot : HorizonDays]]

InitReaper == InitWith(ReaperConfigs)

NextReaper ==
    \/ \E m \in ReaperMessages : delivered < MaxReaperUpdates /\ Observe(m, FALSE)
    \/ \E k \in 1..Len(tasks) : DownloadDone(k)
    \/ \E k \in 1..Len(tasks) : ExistsDone(k)
    \/ \E k \in 1..Len(tasks) : CommitDone(k)
    \/ ReaperPurge
    \/ ReaperFiles
    \/ ReaperWake
    \/ ReaperRaises
    \/ Tick

SpecReaper == InitReaper /\ [][NextReaper]_vars

(* The media directory under retention: two messages whose media is        *)
(* captured, both variants of the program, and horizons that are equal or  *)
(* where the user or the group horizon is the longest.                     *)
VaultMessages ==
    {WithMedia([GroupMsg(3, -20, 7) EXCEPT !.chat_nf = "yes"], "photo", 0, 1),
     WithMedia(PrivateMsg(1, 5), "photo", 5, 1)}

VaultPersist ==
    {DefaultPersist, [DefaultPersist EXCEPT !.user = 2], [DefaultPersist EXCEPT !.group = 2]}

VaultConfigs ==
    [variant : {"legacy", "package"}, rate_limit : {1}, save_edited : {TRUE},
     persist : VaultPersist]

InitVault == InitWith(VaultConfigs)

NextVault ==
    \/ \E m \in VaultMessages : delivered < MaxReaperUpdates /\ Observe(m, FALSE)
    \/ \E k \in 1..Len(tasks) : DownloadDone(k)
    \/ \E k \in 1..Len(tasks) : ExistsDone(k)
    \/ \E k \in 1..Len(tasks) : CommitDone(k)
    \/ ReaperPurge
    \/ ReaperFiles
    \/ ReaperWake
    \/ ReaperRaises
    \/ Tick

SpecVault == InitVault /\ [][NextVault]_vars

(* The vault under capture and retrieval: a message whose media is         *)
(* captured, an edit of it that replaces the media, an edit whose media    *)
(* exceeds the size limit, and a message of another chat whose id and chat *)
(* id have the same digits in a row; deletions of both in a private chat.  *)
CaptureMessages ==
    {WithMedia([PrivateMsg(1, 23) EXCEPT !.msg_nf = TRUE, !.text = "a"], "photo", 0, 1),
     WithMedia([PrivateMsg(1, 23) EXCEPT !.msg_nf = TRUE, !.text = "d"], "document", 0, 1),
     WithMedia([PrivateMsg(1, 23) EXCEPT !.msg_nf = TRUE, !.text = "a"], "gif", 0, Big),
     WithMedia([PrivateMsg(12, 3) EXCEPT !.msg_nf = TRUE, !.text = "c"], "sticker", 0, 1)}

CaptureIdLists == {<<1>>, <<12>>}

CaptureConfigs ==
    [variant : {"legacy", "package"}, rate_limit : {1}, save_edited : {TRUE},
     persist : {DefaultPersist}]

InitCapture == InitWith(CaptureConfigs)

NextCapture ==
    \/ \E m \in CaptureMessages, e \in BOOLEAN :
          delivered < MaxCaptureUpdates /\ Observe(m, e)
    \/ \E ids \in CaptureIdLists : delivered < MaxCaptureUpdates /\ Deleted(ids, 0)
    \/ \E k \in 1..Len(tasks) : DownloadDone(k)
    \/ \E k \in 1..Len(tasks) : ExistsDone(k)
    \/ \E k \in 1..Len(tasks) : CommitDone(k)
    \/ \E k \in 1..Len(tasks) : LoadDone(k)
    \/ \E k \in 1..Len(tasks) : RecordDone(k)

SpecCapture == InitCapture /\ [][NextCapture]_vars

(* Expiry: a message of a private chat and one whose chat type is not      *)
(* resolved, under equal horizons and under a longer group horizon; the    *)
(* retention loop keeps running: no operation of a sweep raises, and each  *)
(* of its steps is taken once it can be (the loop is a task of the event   *)
(* loop, and asyncio.sleep returns).                                       *)
ExpiryMessages ==
    {[PrivateMsg(1, 5) EXCEPT !.text = "a"],
     [NoMsg EXCEPT !.id = 5, !.chat_id = 9, !.text = "e"]}

ExpiryConfigs ==
    [variant : {"legacy"}, rate_limit : {1}, save_edited : {TRUE},
     persist : {DefaultPersist, [DefaultPersist EXCEPT !.group = 2]}]

InitExpiry == InitWith(ExpiryConfigs)

NextExpiry ==
    \/ \E m \in ExpiryMessages : delivered < MaxReaperUpdates /\ Observe(m, FALSE)
    \/ \E k \in 1..Len(tasks) : ExistsDone(k)
    \/ \E k \in 1..Len(tasks) : CommitDone(k)
    \/ ReaperPurge
    \/ ReaperFiles
    \/ ReaperWake
    \/ Tick

SpecExpiry ==
    /\ InitExpiry
    /\ [][NextExpiry]_vars
    /\ WF_vars(ReaperPurge)
    /\ WF_vars(ReaperFiles)
    /\ WF_vars(ReaperWake)

---------------------------------------------------------------------------
(* Properties of ingestion, checked under SpecIngest *)

Tasks == {tasks[k] : k \in 1..Len(tasks)} \cup ended

MsgKey(t) == <<t.msg.chat_id, t.msg.id>>

RowsOf(t) == {r \in store : Key(r) = MsgKey(t)}

IsObservation(t) == t.upd \in {"new", "edited"}

NmhEnded(t) == t.nmh \in {"returned", "raised"}

Suppressed(t) == get_sender_id(t.msg) \in IGNORED_IDS \/ t.msg.chat_id \in IGNORED_IDS

Oversized(t) ==
    /\ t.msg.media # "none"
    /\ DetectNoforwards(t.msg) \/ DetectSelfDestructing(t.msg)
    /\ t.msg.size > MAX_IN_MEMORY_FILE_SIZE

(* C1: once new_message_handler has ended for an observed, non-ignored     *)
(* message (its capture not rejected for size), the store holds exactly    *)
(* one row for the message's (chat_id, id), however the handlers of the    *)
(* same pair interleaved.                                                  *)
C1_ExactlyOneRow ==
    \A t \in Tasks :
        IsObservation(t) /\ NmhEnded(t) /\ ~Suppressed(t) /\ ~Oversized(t)
            => Cardinality(RowsOf(t)) = 1

(* C2: when new_message_handler returns for a non-ignored message whose    *)
(* (chat_id, id) had no row when it was observed, the store holds a row    *)
(* for that pair, whatever rows other chats hold under the same id.        *)
C2_FirstObservationStored ==
    \A t \in Tasks :
        IsObservation(t) /\ t.nmh = "returned" /\ ~Suppressed(t) /\ t.seen = {}
            => RowsOf(t) # {}

PastCapture(t) == IsObservation(t) /\ t.nmh # "none" /\ t.pc # "download"

C8_OversizeStillStored ==
    \A t \in Tasks :
        IsObservation(t) /\ NmhEnded(t) /\ ~Suppressed(t) /\ Oversized(t)
            => t.nmh = "returned" /\ RowsOf(t) # {}

(* C9: once new_message_handler has ended for a MessageEdited event, a row *)
(* that was stored for the (chat_id, id) when the event arrived and is     *)
(* still stored has edited_at set.                                         *)
C9_EditSetsEditedAt ==
    \A t \in Tasks :
        t.upd = "edited" /\ NmhEnded(t)
            => \A r \in t.seen : r \in store => r.edited_at # NoTime

(* the messages observed so far and the messages their links resolve to *)
Known == {t.msg : t \in Tasks} \cup UNION {t.msg.link : t \in Tasks}

InIgnoreSet(m) == get_sender_id(m) \in IGNORED_IDS \/ m.chat_id \in IGNORED_IDS

(* C17 as stated: no stored row and no vault file belongs to a message     *)
(* whose sender or chat is in the ignore set, and the handler of such a    *)
(* message writes neither the store nor the vault.                         *)
C17_IgnoredLeaveNoTrace ==
    /\ \A m \in Known :
         InIgnoreSet(m) =>
            /\ \A r \in store : Key(r) # <<m.chat_id, m.id>>
            /\ FileAt(vault, FilePath(m.id, m.chat_id)) = {}
    /\ \A t \in Tasks :
         IsObservation(t) /\ Suppressed(t) =>
            ~t.wrote /\ t.row = {} /\ t.saved = {}

(* C17 amended: the same, except for link commands: the handler of an      *)
(* ignored message that is not a link command never reaches the capture,   *)
(* the existence query or the insert, no stored row belongs to an ignored  *)
(* message, and a vault file of an ignored message was written for a link  *)
(* command.                                                                *)
C17_IgnoredExceptLinkCommand ==
    /\ \A m \in Known :
         InIgnoreSet(m) =>
            /\ \A r \in store : Key(r) # <<m.chat_id, m.id>>
            /\ \A f \in FileAt(vault, FilePath(m.id, m.chat_id)) :
                 \E t \in Tasks : IsLinkCommand(t.msg) /\ f.path \in t.saved
    /\ \A r \in store : r.from_id \notin IGNORED_IDS /\ r.chat_id \notin IGNORED_IDS
    /\ \A t \in Tasks :
         IsObservation(t) /\ Suppressed(t) /\ ~IsLinkCommand(t.msg) =>
            /\ ~t.wrote /\ t.row = {} /\ t.saved = {}
            /\ t.pc \notin {"fetch", "download", "exists", "commit"}

(* a message in the log chat that carries media and a flag has been        *)
(* observed and its handler is over, next to a message that was captured   *)
(* and stored                                                              *)
C17_Witness ==
    /\ \E t \in ended :
         /\ IsObservation(t) /\ t.msg.chat_id \in LogChat
         /\ ~IsLinkCommand(t.msg) /\ ShouldCapture(t.msg)
    /\ store # {}
    /\ vault # {}

(* C19: a handler that passed the existence check and attempted the insert *)
(* completes normally, also when another handler of the same (chat_id, id) *)
(* inserted first; no handler ends with an error because of the duplicate. *)
C19_DuplicateInsertBenign ==
    \A t \in Tasks :
        IsObservation(t) /\ NmhEnded(t) /\ t.row # {} => t.nmh = "returned"

---------------------------------------------------------------------------
(* Properties of reconciliation, checked under SpecReconcile *)

EdhEnded(t) == t.edh \in {"returned", "raised"}

LoadedRows(t) == {t.loaded[k] : k \in 1..Len(t.loaded)}

SkippedForIgnored(t) ==
    \E r \in LoadedRows(t) : r.from_id \in IGNORED_IDS \/ r.chat_id \in IGNORED_IDS

(* C5: an event whose handler has ended produced exactly one rollup notice *)
(* when it carried more ids than the threshold and a sender mention was    *)
(* produced for at least one of its records, and none otherwise.           *)
C5_RollupExactlyWhenOverThreshold ==
    \A t \in Tasks :
        EdhEnded(t) =>
            t.rollups = IF Len(t.ids) > cfg.rate_limit /\ t.mentions > 0 THEN 1 ELSE 0

(* C6: for a deletion or read event, the records loaded are among the      *)
(* first T ids of the event, and the notices emitted for it never exceed T.*)
C6_NoticesWithinThreshold ==
    \A t \in Tasks :
        t.upd \in {"deleted", "read"} =>
            /\ \A r \in LoadedRows(t) :
                 \E k \in 1..Len(t.ids) : k <= cfg.rate_limit /\ t.ids[k] = r.id
            /\ t.notices <= cfg.rate_limit

(* C7: an event whose handler has ended, and that was not skipped for an   *)
(* ignored id, has a notice for every record it loaded: a vault file that  *)
(* is missing costs the attachment, not the notice nor the later records.  *)
C7_MissingFileKeepsNotices ==
    \A t \in Tasks :
        EdhEnded(t) /\ ~SkippedForIgnored(t) => t.notices = Len(t.loaded)

---------------------------------------------------------------------------
(* Properties of the reconciliation query, checked under SpecQuery *)

(* the rows of the table that match the event's where clause and survive   *)
(* its post-filter                                                         *)
Matching(t) == {r \in t.table : InScope(t, r) /\ KeepAfterLoad(t, r)}

SameKey(t, r) == {q \in Matching(t) : Key(q) = Key(r)}

LoadedAt(t, key) == {k \in 1..Len(t.loaded) : Key(t.loaded[k]) = key}

(* C13: for every (chat_id, id) matched by an event's query, exactly one   *)
(* row is returned, and it is the stored row of that key with the greatest *)
(* edited_at.                                                              *)
C13_OneRowPerKeyLatestEdit ==
    \A t \in Tasks :
        t.queried =>
            \A r \in Matching(t) :
                /\ Cardinality(LoadedAt(t, Key(r))) = 1
                /\ \A k \in LoadedAt(t, Key(r)) :
                     \E g \in SameKey(t, r) :
                        /\ t.loaded[k] = Selected(g)
                        /\ \A q \in SameKey(t, r) : q.edited_at <= g.edited_at

(* C14: the rows returned for an event are in ascending order of           *)
(* created_at.                                                             *)
C14_AscendingCreatedAt ==
    \A t \in Tasks :
        t.queried =>
            \A j, k \in 1..Len(t.loaded) :
                j < k => t.loaded[j].created_at <= t.loaded[k].created_at

(* identifiers of channels and supergroups are -(10^12 + id); the model    *)
(* scales 10^12 to 1000, so that -1001 .. -1999 is the reserved namespace   *)
InChannelNamespace(chat_id) == chat_id < -1000

(* C15: an event with a chat id is answered with rows of that chat only;   *)
(* an event without one is answered with no row of the channel namespace   *)
(* and with every matching row of a user or basic-group chat.              *)
C15_ScopeResolution ==
    \A t \in Tasks :
        t.queried =>
            IF t.chat # 0
            THEN \A r \in LoadedRows(t) : r.chat_id = t.chat
            ELSE /\ \A r \in LoadedRows(t) : ~InChannelNamespace(r.chat_id)
                 /\ \A r \in t.table :
                      /\ r.id \in SeqRange(CandidateIds(t))
                      /\ ~InChannelNamespace(r.chat_id)
                      /\ KeepAfterLoad(t, r)
                      => Selected(r) \in LoadedRows(t)

(* C16: a read event is answered with self-destructing rows only, so no    *)
(* notice is sent for any other row; a deletion or an edit is answered     *)
(* with every row its where clause matches, whatever the flag.             *)
C16_ReadKeepsSelfDestructingOnly ==
    \A t \in Tasks :
        t.queried =>
            /\ t.upd = "read" => \A r \in LoadedRows(t) : r.self_destructing
            /\ t.upd \in {"deleted", "edited"} =>
                  \A r \in t.table : InScope(t, r) => Selected(r) \in LoadedRows(t)
            /\ t.notices <= Len(t.loaded)

(* a read event whose ids match a self-destructing row, reported, and a    *)
(* row without the flag, dropped                                           *)
C16_Witness ==
    \E t \in Tasks :
        /\ t.upd = "read" /\ t.queried /\ t.notices > 0
        /\ \E r \in t.table : InScope(t, r) /\ ~r.self_destructing

(* C18: an event one of whose loaded rows has its sender or its chat in    *)
(* the ignore set ends with no notice and no rollup.                       *)
C18_IgnoredRowSilencesEvent ==
    \A t \in Tasks :
        EdhEnded(t) /\ SkippedForIgnored(t) => t.notices = 0 /\ t.rollups = 0

(* C20: for every loaded row that reached retrieve_media_as_file, the      *)
(* vault file was opened exactly when the row's flag is set and its media  *)
(* is neither a geo point nor a poll, and otherwise the media reference    *)
(* was yielded.                                                            *)
C20_RetrieveGating ==
    \A t \in Tasks :
        \A k \in 1..Len(t.retrieved) :
            t.retrieved[k] = IF OpensVault(t.loaded[k]) THEN "vault" ELSE "media"

---------------------------------------------------------------------------
(* Properties of retention, checked under SpecReaper *)

HasHorizon(type) == type \in {USER, CHANNEL, GROUP, BOT}

Horizon(type) ==
    CASE type = USER -> cfg.persist.user
      [] type = CHANNEL -> cfg.persist.channel
      [] type = GROUP -> cfg.persist.group
      [] type = BOT -> cfg.persist.bot

(* C3: in the step that commits the purge of the sweep computed at T, no   *)
(* row of a chat type with horizon H is left with created_at < T - H, and  *)
(* every row of such a type with created_at >= T - H is kept.              *)
C3_RetentionCorrect ==
    [][(reaper.pc = "purge" /\ reaper'.pc = "files") =>
          /\ \A r \in store' :
               HasHorizon(r.type) => ~(r.created_at < reaper.at - Horizon(r.type))
          /\ \A r \in store :
               HasHorizon(r.type) /\ r.created_at >= reaper.at - Horizon(r.type)
                   => r \in store']_vars

(* a sweep computed a day or more after start-up has committed its purge   *)
(* and removed a row whose horizon had elapsed                             *)
C3_Witness ==
    /\ reaper.pc = "files"
    /\ reaper.at > 0
    /\ reaper.rowcount > 0

(* the largest of the four retention horizons *)
MaxHorizon ==
    LET H == {cfg.persist.user, cfg.persist.channel, cfg.persist.group, cfg.persist.bot}
    IN  CHOOSE h \in H : \A g \in H : g <= h

FileScanStep == reaper.pc = "files" /\ reaper'.pc = "sleep"

(* C11: the file scan of the sweep computed at T removes a vault file only *)
(* if its modification time is earlier than T minus the largest of the     *)
(* four horizons.                                                          *)
C11_FileHorizonIsLongest ==
    [][FileScanStep =>
          \A f \in vault : f \notin vault' => f.mtime < reaper.at - MaxHorizon]_vars

(* C12: the file scan of the sweep computed at T removes every vault file  *)
(* written by capture whose modification time is earlier than T minus the  *)
(* largest horizon.                                                        *)
C12_ExpiredFilesReclaimed ==
    [][FileScanStep =>
          \A f \in vault : f.mtime < reaper.at - MaxHorizon => f \notin vault']_vars

(* C10: a failed iteration does not end the retention loop: the loop is    *)
(* always at its purge, at its file scan or asleep before the next sweep.  *)
C10_FailedSweepContained ==
    reaper.pc \in {"purge", "files", "sleep"}

---------------------------------------------------------------------------
(* Properties of the vault, checked under SpecCapture *)

(* the completed captures of the message with this key *)
Captures(key) == {u \in Tasks : IsObservation(u) /\ u.wrote /\ MsgKey(u) = key}

CapturedKeys == {MsgKey(u) : u \in {v \in Tasks : IsObservation(v) /\ v.wrote}}

C22_StoredRowsImmutable ==
    [][\A r \in store :
          \/ r \in store'
          \/ reaper.pc = "purge" /\ reaper'.pc = "files" /\ ExpiredRow(r, reaper.at)]_vars

(* both handlers of an edit of a stored message have ended and the row     *)
(* holds the text it was stored with                                       *)
C22_Witness ==
    \E t \in ended :
        /\ t.upd = "edited"
        /\ t.seen # {}
        /\ t.nmh = "returned"
        /\ Len(t.loaded) = 1
        /\ t.loaded[1].msg_text # t.msg.text
        /\ \E r \in RowsOf(t) : r \in t.seen /\ r.msg_text # t.msg.text

(* C26: a capture rejected for size wrote nothing: the observation did not *)
(* write the vault, and a file at its path holds the bytes of another      *)
(* capture.                                                                *)
C26_OversizedLeavesVault ==
    \A t \in Tasks :
        (IsObservation(t) /\ t.msg.size > MAX_IN_MEMORY_FILE_SIZE) =>
            /\ ~t.wrote
            /\ \A f \in FileAt(vault, FilePath(t.msg.id, t.msg.chat_id)) :
                  Decrypted(f.content) # Download(t.msg.media)

(* an oversized edit was rejected while the vault held the file of the     *)
(* earlier capture of the same key                                         *)
C26_Witness ==
    \E t \in ended :
        /\ IsObservation(t) /\ t.msg.size > MAX_IN_MEMORY_FILE_SIZE
        /\ t.nmh = "raised"
        /\ \E u \in Captures(MsgKey(t)) :
              \E f \in FileAt(vault, FilePath(t.msg.id, t.msg.chat_id)) :
                  Decrypted(f.content) = Download(u.msg.media)

(* C29: the vault file at the path of a stored row whose media was         *)
(* captured holds the bytes of the media the row describes.                *)
C29_FileMatchesStoredMedia ==
    \A r \in store :
        (r.media # "none" /\ (r.noforwards \/ r.self_destructing)) =>
            \A f \in FileAt(vault, FilePath(r.id, r.chat_id)) :
                Decrypted(f.content) = Download(r.media)

---------------------------------------------------------------------------
(* Properties of reconciliation, checked under SpecQuery *)

(* the updates suspended inside new_message_handler *)
InNmh(ts) == SelectSeq(ts, LAMBDA t : t.pc \in {"download", "exists", "commit", "fetch"})

(* a step of edited_deleted_handler: no update arrives, no                 *)
(* new_message_handler moves, and some suspended update does               *)
EdhStep ==
    /\ delivered' = delivered
    /\ InNmh(tasks') = InNmh(tasks)
    /\ tasks' # tasks

(* the records of one stored row, whichever events reported it, were sent  *)
(* with the same media_file in the same way                                *)
SameRowSameNotice ==
    \A t \in Tasks, u \in Tasks :
        \A j \in 1..Len(t.files), k \in 1..Len(u.files) :
            t.loaded[j] = u.loaded[k] =>
                t.files[j] = u.files[k] /\ t.dispatch[j] = u.dispatch[k]

C24_UnobservedAreSilent ==
    \A t \in Tasks :
        (t.upd \in {"deleted", "read"} /\ t.queried
            /\ {r \in t.table : InScope(t, r)} = {}) =>
            /\ t.notices = 0
            /\ t.rollups = 0
            /\ t.edh = "returned"

(* C25: every record that is sent reaches the log chat, the media first    *)
(* and the text as a reply to it for a sticker, round video, dice, game,   *)
(* contact, geo point or poll, the text alone for an instant view, and     *)
(* one message with text and attachment for every other media.             *)
C25_DispatchByAttachmentKind ==
    \A t \in Tasks :
        /\ Len(t.dispatch) = t.notices
        /\ \A k \in 1..Len(t.dispatch) :
              LET media == t.loaded[k].media
              IN  IF media \in {"sticker", "round_video", "dice", "game",
                                "contact", "geo", "poll"}
                  THEN t.dispatch[k] = "file_then_reply"
                  ELSE IF media = "webpage" THEN t.dispatch[k] = "text"
                  ELSE t.dispatch[k] = "text_with_file"

---------------------------------------------------------------------------
(* Properties of edit notices, checked under SpecIngest *)

(* the records of the update that were sent to the log chat *)
SentRecords(t) == {k \in 1..Len(t.dispatch) : t.dispatch[k] # "logged"}

(* C27: the row an edit notice quotes as the original message was stored   *)
(* when the edit event arrived; an edit of a message that had no stored    *)
(* row sends no notice whose original text is the edited text.             *)
C27_OriginalTextPredatesEdit ==
    \A t \in Tasks :
        t.upd = "edited" =>
            \A k \in SentRecords(t) :
                /\ \E r \in t.seen : Selected(r) = t.loaded[k]
                /\ t.seen = {} => t.loaded[k].msg_text # t.msg.text

---------------------------------------------------------------------------
(* Properties of the vault under retention, checked under SpecVault *)

(* C28: for every setting of the horizons, every stored row whose media    *)
(* was captured, and that a sweep at this time would keep, has its vault   *)
(* file.                                                                   *)
C28_MediaOutlivesRecord ==
    \A r \in store :
        (r.media # "none" /\ (r.noforwards \/ r.self_destructing)
            /\ ~ExpiredRow(r, now)) =>
            FileAt(vault, FilePath(r.id, r.chat_id)) # {}

---------------------------------------------------------------------------
(* Properties of expiry, checked under SpecExpiry *)

(* the rows the observed messages can be stored as *)
ExpiryRows == {NewRow(m, FALSE, t) : m \in ExpiryMessages, t \in 0..MaxTime}

(* C30: a stored row whose age exceeds the horizon of its chat type, the   *)
(* group horizon for a row of type UNKNOWN, is eventually removed.         *)
C30_NoRowLivesForever ==
    \A r \in ExpiryRows :
        (r \in store /\ r.created_at < now - PersistDays(r.type)) ~> (r \notin store)

(* a sweep removed the row of a message whose chat type is UNKNOWN *)
C30_Witness ==
    \E t \in ended :
        /\ get_chat_type(t.msg) = UNKNOWN
        /\ t.nmh = "returned"
        /\ t.row # {}
        /\ t.row \cap store = {}
        /\ reaper.pc = "files"
        /\ reaper.rowcount = 1

====
